---- MODULE Spec2Model ----
(***************************************************************************)
(* Model of wichern/geotile: the hexagon geometry and grid code of         *)
(* src/geotiles/__init__.py and the tile job of src/geotiles.py.           *)
(*                                                                         *)
(* Coordinates are half-integers in the cases modelled (s/2 and 3s/2 for   *)
(* an integer size s), so every coordinate and every length along an axis  *)
(* is stored as TWICE its value; a name ending in 2 holds such a doubled   *)
(* value.  Sizes (hexagon_size, size) and counts are stored as they are.   *)
(***************************************************************************)
EXTENDS Integers, Sequences, FiniteSets, TLC

VARIABLES
    pc,             \* position of the modelled program
    \* ---- geotiles.py: main lines 279-284 and Hexagon.get_neighbours
    center_utm,     \* <<2x, 2y>> of hexagon_center
    size,           \* args.tile_size_meters
    hexagon_radius, \* args.hexagon_radius
    ring,           \* main's loop variable i (rings 1..ring are done)
    dir_i,          \* get_neighbours: i
    dir_j,          \* get_neighbours: j
    pos,            \* get_neighbours: pos, <<2x, 2y>>
    ret,            \* get_neighbours: ret, sequence of hexagons
    hexagons,       \* main: hexagons
    \* ---- geotiles/__init__.py: distribute_hexagons
    bbox,           \* <<2 x_min, 2 y_min, 2 x_max, 2 y_max>>
    hexagon_size,
    x, y,           \* doubled
    even,
    grid,           \* distribute_hexagons: hexagons
    \* ---- geotiles/__init__.py: one Hexagon and its derived properties
    hex,            \* the Hexagon constructed
    hpoly,          \* the value of hex.polygon once read, <<>> before
    hbox,           \* the value of hex.bbox once read, <<>> before
    \* ---- geotiles.py: main lines 286-302, the fetch loop and the export loop
    n_hexagons,     \* len(hexagons)
    step_m,         \* args.elevation_step_meters
    step_mm,        \* args.elevation_step_millimeters
    job_i,          \* the running loop's i (hexagon job_i + 1 is next)
    collab,         \* per hexagon: what its collaborators answered when asked
    elevation_gdf,  \* per hexagon: its elevation bands (rows in order)
    min_elevation,  \* main: min_elevation, a float
    max_elevation,  \* main: max_elevation, a float
    geojson,        \* hexagons whose two geojson files are written
    exports,        \* the export_mesh calls made so far, in order
    \* ---- geotiles.py: one call of Hexagon.export_mesh
    m_rows,         \* self.elevation_gdf, rows in order
    m_offset,       \* elevation_offset_m
    m_scale,        \* elevation_scale, <<numerator, denominator>>
    meshes,         \* the list concatenated and exported, <<>> before the call
    \* ---- geotiles.py: one call of Hexagon.fetch_data, the street layer
    osm,            \* what the road collaborator answers
    s_rows,         \* self.elevation_gdf after _fetch_elevation
    streets_gdf,    \* self.streets_gdf
    \* ---- geotiles.py: export_mesh lines 204-233, the normalization
    nz_hex,         \* self, the hexagon exported
    diameter_mm,    \* export_mesh's diameter_mm (the target footprint)
    normalization_params, \* export_mesh: normalization_params, <<>> before line 204
    hexagon_poly,   \* export_mesh: hexagon_poly, <<>> before line 209
    nz_parts,       \* band polygons normalized so far (line 233)
    nz_poly,        \* the band polygon normalized last, its points doubled
    normalized_poly \* export_mesh: normalized_poly of that polygon

neighVars == <<center_utm, size, hexagon_radius, ring, dir_i, dir_j, pos, ret, hexagons>>
distVars == <<bbox, hexagon_size, x, y, even, grid>>
polyVars == <<hex, hpoly, hbox>>
jobVars == <<n_hexagons, step_m, step_mm, job_i, collab, elevation_gdf,
             min_elevation, max_elevation, geojson, exports>>
meshVars == <<m_rows, m_offset, m_scale, meshes>>
streetVars == <<osm, s_rows, streets_gdf>>
normVars == <<nz_hex, diameter_mm, normalization_params, hexagon_poly, nz_parts,
              nz_poly, normalized_poly>>
vars == <<pc, neighVars, distVars, polyVars, jobVars, meshVars, streetVars, normVars>>

(* what each part of the program leaves alone *)
notNeigh == <<distVars, polyVars, jobVars, meshVars, streetVars, normVars>>
notDist == <<neighVars, polyVars, jobVars, meshVars, streetVars, normVars>>
notPoly == <<neighVars, distVars, jobVars, meshVars, streetVars, normVars>>
notJob == <<neighVars, distVars, polyVars, meshVars, streetVars, normVars>>
notMesh == <<neighVars, distVars, polyVars, jobVars, streetVars, normVars>>
notNorm == <<neighVars, distVars, polyVars, jobVars, meshVars, streetVars>>
notStreets == <<neighVars, distVars, polyVars, jobVars, meshVars, normVars>>

----------------------------------------------------------------------------
(* Bounds *)
MaxCoord == 1       \* hexagon_center's coordinates are in 0..MaxCoord
MaxSize == 2        \* tile_size_meters and hexagon_size are in 1..MaxSize
MaxRadius == 2      \* hexagon_radius is in 0..MaxRadius
MaxCorner == 1      \* bbox lower-left corner coordinates are in 0..MaxCorner
MaxExtent == 10     \* bbox width and height are in -1..MaxExtent
MaxCenter == 2      \* a single hexagon's center coordinates are in -MaxCenter..MaxCenter
MaxHexSize == 3     \* a single hexagon's size is in 1..MaxHexSize
MaxHexagons == 2    \* a job has 1..MaxHexagons hexagons
MaxJobBands == 2    \* a hexagon of a job has 0..MaxJobBands elevation bands
MaxMeshBands == 2   \* export_mesh is called with 0..MaxMeshBands elevation bands
MaxParts == 2       \* a MultiPolygon has 2..MaxParts member polygons
MaxCells == 2       \* street and band geometries are sets of cells 1..MaxCells
MaxRoads == 2       \* the road collaborator answers 1..MaxRoads roads
MaxStreetBands == 2 \* fetch_data sees 0..MaxStreetBands elevation bands
MaxNormSize == 2    \* the hexagon normalized has a size in 1..MaxNormSize
MaxNormParts == 2   \* export_mesh normalizes 0..MaxNormParts band polygons
MaxPartPoints == 1  \* a band polygon is given by 1..MaxPartPoints of its points

----------------------------------------------------------------------------
(* Small helpers *)
Abs(v) == IF v < 0 THEN -v ELSE v
Max2(a, b) == IF a >= b THEN a ELSE b
Range(s) == {s[k] : k \in DOMAIN s}
NoDuplicates(s) == \A k, l \in DOMAIN s : k # l => s[k] # s[l]

----------------------------------------------------------------------------
(* Hexagon: a center (doubled) and a size *)
Hexagon(center2, s) == [center |-> center2, size |-> s]

(* Hexagon.polygon / Hexagon.polygon_utm: the six vertices in the order of *)
(* the source, doubled (the closing seventh vertex repeats the first).     *)
polygon(h) ==
    LET cx == h.center[1]
        cy == h.center[2]
        s == h.size
    IN  << <<cx - s, cy + 2 * s>>,
           <<cx - 2 * s, cy>>,
           <<cx - s, cy - 2 * s>>,
           <<cx + s, cy - 2 * s>>,
           <<cx + 2 * s, cy>>,
           <<cx + s, cy + 2 * s>> >>

----------------------------------------------------------------------------
(* Hexagon.get_neighbours and main's ring loop *)

(* line 88; directionsBad is the list with its last step halved *)
directionsBad == << <<1, -1>>, <<1, 1>>, <<0, 2>>, <<-1, 1>>, <<-1, -1>>, <<0, -1>> >>
directions == << <<1, -1>>, <<1, 1>>, <<0, 2>>, <<-1, 1>>, <<-1, -1>>, <<0, -2>> >>

(* start of the walk: (x - size*3/2*d, y - size*d), doubled *)
StartPos(c2, s, d) == <<c2[1] - 3 * s * d, c2[2] - 2 * s * d>>

(* one step: (pos.x + size*3/2*dx, pos.y + size*dy), doubled *)
StepPos(p2, s, dv) == <<p2[1] + 3 * s * dv[1], p2[2] + 2 * s * dv[2]>>

IdleNeigh ==
    /\ center_utm = <<0, 0>> /\ size = 1 /\ hexagon_radius = 0 /\ ring = 0
    /\ dir_i = 0 /\ dir_j = 0 /\ pos = <<0, 0>> /\ ret = <<>> /\ hexagons = <<>>

IdleDist ==
    /\ bbox = <<0, 0, 0, 0>> /\ hexagon_size = 1 /\ x = 0 /\ y = 0
    /\ even = TRUE /\ grid = <<>>

IdlePoly == hex = Hexagon(<<0, 0>>, 1) /\ hpoly = <<>> /\ hbox = <<>>

IdleJob ==
    /\ n_hexagons = 1 /\ step_m = 1 /\ step_mm = 1 /\ job_i = 0
    /\ collab = <<>> /\ elevation_gdf = <<>>
    /\ min_elevation = <<>> /\ max_elevation = <<>>
    /\ geojson = {} /\ exports = <<>>

IdleMesh == m_rows = <<>> /\ m_offset = <<>> /\ m_scale = <<>> /\ meshes = <<>>

IdleStreets == osm = <<>> /\ s_rows = <<>> /\ streets_gdf = <<>>

IdleNorm ==
    /\ nz_hex = Hexagon(<<0, 0>>, 1) /\ diameter_mm = 1
    /\ normalization_params = <<>> /\ hexagon_poly = <<>>
    /\ nz_parts = 0 /\ nz_poly = <<>> /\ normalized_poly = <<>>

InitNeigh ==
    /\ pc = "main_rings"
    /\ center_utm \in {<<2 * a, 2 * b>> : a \in 0..MaxCoord, b \in 0..MaxCoord}
    /\ size \in 1..MaxSize
    /\ hexagon_radius \in 0..MaxRadius
    /\ ring = 0
    /\ dir_i = 0 /\ dir_j = 0 /\ pos = <<0, 0>> /\ ret = <<>>
    /\ hexagons = <<Hexagon(center_utm, size)>>
    /\ IdleDist /\ IdlePoly /\ IdleJob /\ IdleMesh /\ IdleStreets /\ IdleNorm

(* main line 283-284: the next ring's call of get_neighbours(i + 1) starts *)
CallGetNeighbours ==
    /\ pc = "main_rings"
    /\ ring < hexagon_radius
    /\ pc' = "neighbours"
    /\ pos' = StartPos(center_utm, size, ring + 1)
    /\ ret' = <<>>
    /\ dir_i' = 0 /\ dir_j' = 0
    /\ UNCHANGED <<center_utm, size, hexagon_radius, ring, hexagons, notNeigh>>

(* get_neighbours lines 89-94: one iteration of the inner loop *)
NeighbourStep ==
    /\ pc = "neighbours"
    /\ dir_i < 6
    /\ LET p == StepPos(pos, size, directions[dir_i + 1])
       IN  /\ pos' = p
           /\ ret' = Append(ret, Hexagon(p, size))
    /\ IF dir_j + 1 < ring + 1
          THEN dir_j' = dir_j + 1 /\ dir_i' = dir_i
          ELSE dir_j' = 0 /\ dir_i' = dir_i + 1
    /\ UNCHANGED <<pc, center_utm, size, hexagon_radius, ring, hexagons, notNeigh>>

(* get_neighbours line 96 and main line 284: return ret, hexagons.extend *)
ReturnNeighbours ==
    /\ pc = "neighbours"
    /\ dir_i = 6
    /\ hexagons' = hexagons \o ret
    /\ ring' = ring + 1
    /\ pc' = "main_rings"
    /\ UNCHANGED <<center_utm, size, hexagon_radius, dir_i, dir_j, pos, ret, notNeigh>>

(* main: the ring loop is over *)
RingsDone ==
    /\ pc = "main_rings"
    /\ ring = hexagon_radius
    /\ pc' = "rings_done"
    /\ UNCHANGED <<neighVars, notNeigh>>

NextNeigh == CallGetNeighbours \/ NeighbourStep \/ ReturnNeighbours \/ RingsDone

SpecNeigh == InitNeigh /\ [][NextNeigh]_vars

----------------------------------------------------------------------------
(* The hex grid the ring is measured on: a hexagon at grid offset <<a, b>> *)
(* from the center has its center at (a * 3s/2, b * s); a + b is even, and *)
(* the number of hexagon steps to it is HexDist(a, b).                     *)
HexDist(a, b) == Max2(Abs(a), (Abs(a) + Abs(b)) \div 2)

GridRing(d) ==
    {ab \in (-d..d) \X (-2 * d..2 * d) :
        (ab[1] + ab[2]) % 2 = 0 /\ HexDist(ab[1], ab[2]) = d}

GridCenter(c2, s, ab) == <<c2[1] + 3 * s * ab[1], c2[2] + 2 * s * ab[2]>>

Centers(hs) == {hs[k].center : k \in DOMAIN hs}

(* C1: get_neighbours(d) returns exactly 6d hexagons of the center's size, *)
(* with pairwise distinct centers that are exactly the grid positions at   *)
(* hex distance d from the center; the list main builds from the center    *)
(* and the rings 1..R never holds a center twice and ends with             *)
(* 1 + 3R(R+1) hexagons.                                                   *)
C1_RingExact ==
    /\ (pc = "neighbours" /\ dir_i = 6) =>
          LET d == ring + 1
          IN  /\ Len(ret) = 6 * d
              /\ \A k \in DOMAIN ret : ret[k].size = size
              /\ NoDuplicates(ret)
              /\ Centers(ret) = {GridCenter(center_utm, size, ab) : ab \in GridRing(d)}
              /\ Centers(ret) \cap Centers(hexagons) = {}
    /\ (pc \in {"main_rings", "rings_done"}) =>
          /\ NoDuplicates([k \in DOMAIN hexagons |-> hexagons[k].center])
          /\ Len(hexagons) = 1 + 3 * ring * (ring + 1)
    /\ pc = "rings_done" => Len(hexagons) = 1 + 3 * hexagon_radius * (hexagon_radius + 1)

C1_Witness ==
    /\ pc = "rings_done" /\ hexagon_radius = 2 /\ Len(hexagons) = 19 /\ size = 2

----------------------------------------------------------------------------
(* Plane geometry on doubled integer coordinates (what shapely computes    *)
(* for these polygons, without rounding)                                   *)
SetMax(S) == CHOOSE m \in S : \A e \in S : m >= e
SetMin(S) == CHOOSE m \in S : \A e \in S : m <= e

Cross(o, a, b) == (a[1] - o[1]) * (b[2] - o[2]) - (a[2] - o[2]) * (b[1] - o[1])
NextIdx(poly, k) == IF k = Len(poly) THEN 1 ELSE k + 1

(* p lies inside or on the boundary of the convex polygon poly *)
Covers(poly, p) ==
    \/ \A k \in DOMAIN poly : Cross(poly[k], poly[NextIdx(poly, k)], p) >= 0
    \/ \A k \in DOMAIN poly : Cross(poly[k], poly[NextIdx(poly, k)], p) <= 0

(* the normals of the polygon's edges *)
EdgeNormals(poly) ==
    {<<poly[k][2] - poly[NextIdx(poly, k)][2], poly[NextIdx(poly, k)][1] - poly[k][1]>> :
        k \in DOMAIN poly}

Proj(poly, n) == {poly[k][1] * n[1] + poly[k][2] * n[2] : k \in DOMAIN poly}

(* two convex polygons share interior points iff no edge normal of either  *)
(* separates them (touching in an edge or a vertex is separated)           *)
InteriorsOverlap(P, Q) ==
    \A n \in EdgeNormals(P) \cup EdgeNormals(Q) :
        /\ SetMax(Proj(P, n)) > SetMin(Proj(Q, n))
        /\ SetMax(Proj(Q, n)) > SetMin(Proj(P, n))

(* Hexagon.bbox: (left, bottom, right, top), doubled *)
hexagon_bbox(h) ==
    <<h.center[1] - 2 * h.size, h.center[2] - 2 * h.size,
      h.center[1] + 2 * h.size, h.center[2] + 2 * h.size>>

----------------------------------------------------------------------------
(* distribute_hexagons *)
(* lines 69-70; horizontal_distanceNarrow is the pitch of hexagons set     *)
(* side by side in one row                                                 *)
horizontal_distanceNarrow(s) == 2 * s
horizontal_distance(s) == 3 * s

(* line 70; vertical_distanceZero keeps the row where it is *)
vertical_distanceZero(s) == 0
vertical_distance(s) == s

(* line 80: x + hexagon_size > x_max; RowFullLate tests x alone *)
RowFullLate(x2, s, x_max2) == x2 > x_max2
RowFull(x2, s, x_max2) == x2 + 2 * s > x_max2

(* line 87: y + hexagon_size > y_max *)
GridFull(y2, s, y_max2) == y2 + 2 * s > y_max2

ExampleBBox == <<0, 0, 20, 20>>      \* (0, 0, 10, 10)

InitDist ==
    /\ pc = "distribute"
    /\ \E x_min \in 0..MaxCorner, y_min \in 0..MaxCorner,
          w \in -1..MaxExtent, h \in -1..MaxExtent :
          bbox = <<2 * x_min, 2 * y_min, 2 * (x_min + w), 2 * (y_min + h)>>
    /\ hexagon_size \in 1..MaxSize
    /\ x = bbox[1]
    /\ y = bbox[2]
    /\ even = TRUE
    /\ grid = <<>>
    /\ IdleNeigh /\ IdlePoly /\ IdleJob /\ IdleMesh /\ IdleStreets /\ IdleNorm

(* lines 75-88: one iteration of the while loop *)
DistributeIter ==
    /\ pc = "distribute"
    /\ LET s == hexagon_size
           center == <<x + 2 * s, y + 2 * s>>
           x1 == x + 2 * horizontal_distance(s)
       IN  /\ grid' = Append(grid, Hexagon(center, s))
           /\ IF RowFull(x1, s, bbox[3])
                 THEN /\ x' = IF even THEN bbox[1] + horizontal_distance(s) ELSE bbox[1]
                      /\ even' = ~even
                      /\ y' = y + 2 * vertical_distance(s)
                      /\ pc' = IF GridFull(y', s, bbox[4]) THEN "returned" ELSE "distribute"
                 ELSE /\ x' = x1
                      /\ UNCHANGED <<even, y, pc>>
    /\ UNCHANGED <<bbox, hexagon_size, notDist>>

NextDist == DistributeIter

SpecDist == InitDist /\ [][NextDist]_vars

Corners(b) == {<<b[1], b[2]>>, <<b[3], b[2]>>, <<b[1], b[4]>>, <<b[3], b[4]>>}

(* a bbox at least one hexagon (2*s) wide and high *)
ProperBBox(b, s) == b[3] - b[1] >= 4 * s /\ b[4] - b[2] >= 4 * s

(* C2: every corner of bbox lies inside or on the boundary of the polygon  *)
(* of at least one hexagon distribute_hexagons returns.  Stated here for   *)
(* the bboxes at least one hexagon wide and high, which the claim covers.  *)
C2_CornersCovered ==
    (pc = "returned" /\ ProperBBox(bbox, hexagon_size)) =>
        \A c \in Corners(bbox) : \E k \in DOMAIN grid : Covers(polygon(grid[k]), c)

BBoxesOverlap(a, b) == a[3] > b[1] /\ b[3] > a[1] /\ a[4] > b[2] /\ b[4] > a[2]

HexagonsOverlap(g, h) ==
    /\ BBoxesOverlap(hexagon_bbox(g), hexagon_bbox(h))
    /\ InteriorsOverlap(polygon(g), polygon(h))

(* C3: no two distinct hexagons distribute_hexagons returns have polygons  *)
(* with common interior points, and no center is returned twice.           *)
C3_NoOverlap ==
    pc = "returned" =>
        \A k, l \in DOMAIN grid :
            k < l => /\ grid[k].center # grid[l].center
                     /\ ~HexagonsOverlap(grid[k], grid[l])

C3_Witness ==
    /\ pc = "returned" /\ Len(grid) >= 6
    /\ \E k, l \in DOMAIN grid :
          k < l /\ BBoxesOverlap(hexagon_bbox(grid[k]), hexagon_bbox(grid[l]))

CenterInBBox(h, b) ==
    /\ b[1] <= h.center[1] /\ h.center[1] <= b[3]
    /\ b[2] <= h.center[2] /\ h.center[2] <= b[4]

ExampleCenters ==
    << <<4, 4>>, <<16, 4>>, <<10, 8>>, <<4, 12>>, <<16, 12>>, <<10, 16>>,
       <<4, 20>>, <<16, 20>> >>

ExampleHolds ==
    (pc = "returned" /\ bbox = ExampleBBox /\ hexagon_size = 2) =>
        [k \in DOMAIN grid |-> grid[k].center] = ExampleCenters

(* C4 as stated: for a bbox at least 2*s wide and 2*s high every returned  *)
(* hexagon has its center inside bbox, and (0,0,10,10) with s = 2 gives    *)
(* the eight listed centers in raster order.                               *)
C4_CentersInside_Original ==
    /\ (bbox[3] - bbox[1] >= 4 * hexagon_size /\ bbox[4] - bbox[2] >= 4 * hexagon_size) =>
          \A k \in DOMAIN grid : CenterInBBox(grid[k], bbox)
    /\ ExampleHolds

(* C4 amended: the same for a bbox at least 5*s/2 wide and 2*s high (the   *)
(* first hexagon of an odd row is centered at x_min + 5*s/2).              *)
C4_CentersInside ==
    /\ (bbox[3] - bbox[1] >= 5 * hexagon_size /\ bbox[4] - bbox[2] >= 4 * hexagon_size) =>
          \A k \in DOMAIN grid : CenterInBBox(grid[k], bbox)
    /\ ExampleHolds

C4_Witness ==
    /\ pc = "returned"
    /\ bbox[3] - bbox[1] = 5 * hexagon_size
    /\ Len(grid) >= 3
    /\ \E k \in DOMAIN grid : grid[k].center[1] = bbox[3]

----------------------------------------------------------------------------
(* One Hexagon: __init__ and the properties polygon and bbox *)
InitPoly ==
    /\ pc = "hexagon"
    /\ \E cx \in -MaxCenter..MaxCenter, cy \in -MaxCenter..MaxCenter, s \in 1..MaxHexSize :
          hex = Hexagon(<<2 * cx, 2 * cy>>, s)
    /\ hpoly = <<>>
    /\ hbox = <<>>
    /\ IdleNeigh /\ IdleDist /\ IdleJob /\ IdleMesh /\ IdleStreets /\ IdleNorm

ReadPolygon ==
    /\ pc = "hexagon"
    /\ hpoly = <<>>
    /\ hpoly' = polygon(hex)
    /\ UNCHANGED <<pc, hex, hbox, notPoly>>

ReadBBox ==
    /\ pc = "hexagon"
    /\ hbox = <<>>
    /\ hbox' = hexagon_bbox(hex)
    /\ UNCHANGED <<pc, hex, hpoly, notPoly>>

NextPoly == ReadPolygon \/ ReadBBox

SpecPoly == InitPoly /\ [][NextPoly]_vars

Xs(P) == {P[k][1] : k \in DOMAIN P}
Ys(P) == {P[k][2] : k \in DOMAIN P}
Dist2(p, q) == (p[1] - q[1]) * (p[1] - q[1]) + (p[2] - q[2]) * (p[2] - q[2])

(* C5: the polygon is a flat-top hexagon of width 2s whose vertical extent *)
(* between its top and bottom edges is s*sqrt(3) (extent^2 = 3 s^2), and   *)
(* each of its six vertices is at distance exactly s from the center.      *)
(* On doubled coordinates: width 4s, extent^2 = 12 s^2, distance^2 = 4 s^2. *)
C5_RegularHexagon ==
    hpoly # <<>> =>
        LET s == hex.size
            extent2 == SetMax(Ys(hpoly)) - SetMin(Ys(hpoly))
        IN  /\ hpoly[1][2] = hpoly[6][2] /\ hpoly[1][2] = SetMax(Ys(hpoly))
            /\ hpoly[3][2] = hpoly[4][2] /\ hpoly[3][2] = SetMin(Ys(hpoly))
            /\ SetMax(Xs(hpoly)) - SetMin(Xs(hpoly)) = 4 * s
            /\ extent2 * extent2 = 12 * s * s
            /\ \A k \in DOMAIN hpoly : Dist2(hpoly[k], hex.center) = 4 * s * s

----------------------------------------------------------------------------
(* Floats as far as main and export_mesh use them: a number, +-inf, NaN *)
Num(v) == [k |-> "num", v |-> v]
PInf == [k |-> "inf", v |-> 1]
NInf == [k |-> "inf", v |-> -1]
NaN == [k |-> "nan", v |-> 0]

(* a < b; every comparison with NaN is false *)
FLt(a, b) ==
    CASE a.k = "nan" \/ b.k = "nan" -> FALSE
      [] a.k = "num" /\ b.k = "num" -> a.v < b.v
      [] a.k = "inf" /\ b.k = "num" -> a.v < 0
      [] a.k = "num" /\ b.k = "inf" -> b.v > 0
      [] OTHER -> a.v < b.v

(* Python's min(a, b) and max(a, b): the first argument is kept unless the *)
(* second is smaller (larger); PyMinSwapped is min(b, a)                   *)
PyMinSwapped(a, b) == IF FLt(a, b) THEN a ELSE b
PyMin(a, b) == IF FLt(b, a) THEN b ELSE a
PyMax(a, b) == IF FLt(a, b) THEN b ELSE a

(* a - b for a number a and a float b *)
FSub(a, b) ==
    CASE b.k = "num" -> Num(a - b.v)
      [] b.k = "inf" -> [k |-> "inf", v |-> -b.v]
      [] OTHER -> NaN

SeqsUpTo(S, n) == UNION {[1..m -> S] : m \in 0..n}

----------------------------------------------------------------------------
(* Elevation bands: rows of elevation_gdf, a geometry and an elevation.    *)
(* Of a geometry export_mesh reads its type and, of a MultiPolygon, its    *)
(* member polygons.                                                        *)
Polygon == [type |-> "Polygon", parts |-> 1]
MultiPolygon(n) == [type |-> "MultiPolygon", parts |-> n]
OtherGeometry(ty) == [type |-> ty, parts |-> 0]
Band(g, e) == [geometry |-> g, elevation |-> e]

Elevations(rows) == {rows[k].elevation : k \in DOMAIN rows}

(* Hexagon.min_elevation / max_elevation: Series.min() / .max(), NaN for   *)
(* a hexagon without bands                                                 *)
hexagon_min_elevation(rows) ==
    IF rows = <<>> THEN NaN ELSE Num(SetMin(Elevations(rows)))
hexagon_max_elevation(rows) ==
    IF rows = <<>> THEN NaN ELSE Num(SetMax(Elevations(rows)))

(* export_mesh lines 224-230: the polygons extruded for one band;          *)
(* PolyPartsWhole extrudes a MultiPolygon as one                           *)
PolyPartsWhole(g) == IF g.type \in {"Polygon", "MultiPolygon"} THEN 1 ELSE 0
PolyParts(g) ==
    IF g.type = "Polygon" THEN 1
    ELSE IF g.type = "MultiPolygon" THEN g.parts
    ELSE 0

(* line 221: elev_height == 0.0 *)
ZeroHeight(elev_height) == elev_height.k = "num" /\ elev_height.v = 0

(* line 234: elevation_scale * elev_height, elevation_scale = <<n, d>> *)
ExtrudeHeight(elevation_scale, elev_height) ==
    IF elev_height.k = "num"
        THEN [k |-> "num", n |-> elevation_scale[1] * elev_height.v, d |-> elevation_scale[2]]
        ELSE [k |-> elev_height.k, n |-> elevation_scale[1] * elev_height.v, d |-> elevation_scale[2]]

(* lines 217-239 for the rows from k on: the volumes appended to meshes *)
RECURSIVE BandMeshes(_, _, _, _, _)
BandMeshes(rows, k, base_height_mm, elevation_scale, elevation_offset_m) ==
    IF k > Len(rows) THEN <<>>
    ELSE LET elev_height == FSub(rows[k].elevation, elevation_offset_m)
             n == IF ZeroHeight(elev_height) THEN 0 ELSE PolyParts(rows[k].geometry)
             mine == [p \in 1..n |->
                        [kind |-> "band", row |-> k, part |-> p,
                         height |-> ExtrudeHeight(elevation_scale, elev_height),
                         z |-> base_height_mm]]
         IN  mine \o BandMeshes(rows, k + 1, base_height_mm, elevation_scale,
                                elevation_offset_m)

(* export_mesh lines 204-242: the list of volumes that is concatenated and *)
(* exported, the base slab first                                           *)
export_mesh(rows, base_height_mm, elevation_scale, elevation_offset_m) ==
    <<[kind |-> "base", row |-> 0, part |-> 1,
       height |-> [k |-> "num", n |-> base_height_mm, d |-> 1], z |-> 0]>>
    \o BandMeshes(rows, 1, base_height_mm, elevation_scale, elevation_offset_m)

----------------------------------------------------------------------------
(* main lines 286-302: the fetch loop and the export loop *)
BaseHeightMm == 10
JobElevations == {100, 105}
StepsMeters == {1, 2}           \* a contour interval; gdal_contour needs it positive
StepsMillimeters == {-1, 0, 1}  \* any float the command line gives
JobRows == SeqsUpTo({Band(Polygon, e) : e \in JobElevations}, MaxJobBands)

InitJob ==
    /\ pc = "fetch_loop"
    /\ n_hexagons \in 1..MaxHexagons
    /\ step_m \in StepsMeters
    /\ step_mm \in StepsMillimeters
    /\ job_i = 0
    /\ collab = [h \in 1..n_hexagons |-> "unasked"]
    /\ elevation_gdf = [h \in 1..n_hexagons |-> <<>>]
    /\ min_elevation = PInf
    /\ max_elevation = NInf
    /\ geojson = {}
    /\ exports = <<>>
    /\ IdleNeigh /\ IdleDist /\ IdlePoly /\ IdleMesh /\ IdleStreets /\ IdleNorm

(* _fetch_elevation line 135-147: gdal_contour fails, check=True raises    *)
(* CalledProcessError, which nothing catches: the job ends                 *)
FetchContourFails ==
    /\ pc = "fetch_loop"
    /\ collab' = [collab EXCEPT ![job_i + 1] = "contour_error"]
    /\ pc' = "job_aborted"
    /\ UNCHANGED <<n_hexagons, step_m, step_mm, job_i, elevation_gdf, min_elevation,
                   max_elevation, geojson, exports, notJob>>

(* _fetch_streets lines 175-180: what an answer of the road collaborator   *)
(* does to the job: a ValueError is passed over, any other Exception       *)
(* exits; StreetsFatalAll exits on both                                    *)
StreetsFatalAll(answer) == answer \in {"road_error", "no_roads"}
StreetsFatal(answer) == answer = "road_error"

(* main line 302: the elevation_offset_m handed to export_mesh;            *)
(* elevation_offset_argMax hands over the other accumulator                *)
elevation_offset_argMax == max_elevation
elevation_offset_arg == min_elevation

(* main lines 290-295: fetch_data of the next hexagon, the fold into       *)
(* min_elevation / max_elevation, the two geojson files                    *)
FetchHexagon ==
    /\ pc = "fetch_loop"
    /\ \E rows \in JobRows, answer \in {"roads", "no_roads", "road_error"} :
          LET h == job_i + 1
          IN  /\ elevation_gdf' = [elevation_gdf EXCEPT ![h] = rows]
              /\ collab' = [collab EXCEPT ![h] = answer]
              /\ IF StreetsFatal(answer)
                    THEN /\ pc' = "job_aborted"
                         /\ UNCHANGED <<job_i, min_elevation, max_elevation, geojson>>
                    ELSE /\ min_elevation' = PyMin(min_elevation, hexagon_min_elevation(rows))
                         /\ max_elevation' = PyMax(max_elevation, hexagon_max_elevation(rows))
                         /\ geojson' = geojson \cup {h}
                         /\ IF h = n_hexagons
                               THEN pc' = "export_loop" /\ job_i' = 0
                               ELSE pc' = "fetch_loop" /\ job_i' = h
    /\ UNCHANGED <<n_hexagons, step_m, step_mm, exports, notJob>>

(* main lines 297-302: export_mesh of the next hexagon *)
ExportHexagon ==
    /\ pc = "export_loop"
    /\ LET h == job_i + 1
           scale == <<step_mm, step_m>>
       IN  /\ exports' = Append(exports,
                  [hexagon |-> h,
                   elevation_offset_m |-> elevation_offset_arg,
                   elevation_scale |-> scale,
                   meshes |-> export_mesh(elevation_gdf[h], BaseHeightMm, scale,
                                          elevation_offset_arg)])
           /\ IF h = n_hexagons
                 THEN pc' = "job_done" /\ job_i' = 0
                 ELSE pc' = "export_loop" /\ job_i' = h
    /\ UNCHANGED <<n_hexagons, step_m, step_mm, collab, elevation_gdf, min_elevation,
                   max_elevation, geojson, notJob>>

NextJob == FetchContourFails \/ FetchHexagon \/ ExportHexagon

SpecJob == InitJob /\ [][NextJob]_vars

(* the hexagons the fetch loop has processed, and their band elevations *)
Processed == IF pc = "fetch_loop" THEN 1..job_i
             ELSE IF pc = "job_aborted" THEN geojson
             ELSE 1..n_hexagons
SeenElevations == UNION {Elevations(elevation_gdf[h]) : h \in Processed}
LeastSeen == IF SeenElevations = {} THEN PInf ELSE Num(SetMin(SeenElevations))
GreatestSeen == IF SeenElevations = {} THEN NInf ELSE Num(SetMax(SeenElevations))

(* C6: after the fetch loop has processed hexagons, in whatever order      *)
(* their band lists come, min_elevation <= e <= max_elevation for every    *)
(* band elevation e of every processed hexagon, also when some hexagons    *)
(* have no bands; the pair is the least and the greatest elevation seen,   *)
(* which does not depend on the order.                                     *)
C6_GlobalRange ==
    /\ \A e \in SeenElevations :
          /\ min_elevation.k = "num" /\ min_elevation.v <= e
          /\ max_elevation.k = "num" /\ e <= max_elevation.v
    /\ min_elevation = LeastSeen
    /\ max_elevation = GreatestSeen

(* all hexagons processed, a hexagon without bands folded in after one     *)
(* with bands, and the range not a single value                            *)
C6_Witness ==
    /\ pc = "export_loop" /\ n_hexagons = 2
    /\ elevation_gdf[1] # <<>> /\ elevation_gdf[2] = <<>>
    /\ min_elevation = Num(100) /\ max_elevation = Num(105)

HeightPositive(hh) ==
    \/ hh.k = "num" /\ ((hh.n > 0 /\ hh.d > 0) \/ (hh.n < 0 /\ hh.d < 0))
    \/ hh.k = "inf" /\ hh.n > 0

AllElevations == UNION {Elevations(elevation_gdf[h]) : h \in 1..n_hexagons}

ExportsAfterAllFetches ==
    /\ exports # <<>> => \A h \in 1..n_hexagons : collab[h] \in {"roads", "no_roads"}
    /\ \A k \in DOMAIN exports :
          /\ exports[k].elevation_offset_m = exports[1].elevation_offset_m
          /\ exports[k].elevation_offset_m = min_elevation
          /\ AllElevations # {} =>
                exports[k].elevation_offset_m = Num(SetMin(AllElevations))

BandVolumesPositive ==
    \A k \in DOMAIN exports : \A v \in DOMAIN exports[k].meshes :
        exports[k].meshes[v].kind = "band" => HeightPositive(exports[k].meshes[v].height)

(* C7 as stated: no export_mesh starts before fetch_data has completed for *)
(* every hexagon, every export_mesh call receives the same                 *)
(* elevation_offset_m, the final job-wide minimum band elevation, and      *)
(* every extruded band volume has a height                                 *)
(* (elevation - elevation_offset_m) * elevation_scale > 0.                 *)
C7_OffsetAndHeights_Original == ExportsAfterAllFetches /\ BandVolumesPositive

(* C7 amended: the heights are > 0 when elevation_scale, the quotient of   *)
(* the two elevation step arguments, is positive.                          *)
C7_OffsetAndHeights ==
    /\ ExportsAfterAllFetches
    /\ (step_mm > 0 /\ step_m > 0) => BandVolumesPositive

C7_Witness ==
    /\ pc = "job_done" /\ n_hexagons = 2 /\ step_mm > 0
    /\ Len(exports) = 2
    /\ exports[1].elevation_offset_m = Num(100)
    /\ 100 \notin Elevations(elevation_gdf[1])
    /\ \E v \in DOMAIN exports[2].meshes : exports[2].meshes[v].kind = "band"
    /\ Len(exports[1].meshes) = 1 + Len(elevation_gdf[1])
    /\ Len(exports[2].meshes) < 1 + Len(elevation_gdf[2])

Exported == {exports[k].hexagon : k \in DOMAIN exports}
Failing == {h \in 1..n_hexagons : collab[h] \in {"road_error", "contour_error"}}
Ended == pc \in {"job_done", "job_aborted"}

(* an area without any road lets that hexagon continue *)
NoRoadsContinues ==
    \A h \in 1..n_hexagons :
        collab[h] = "no_roads" =>
            /\ h \in geojson
            /\ pc # "job_aborted" \/ Failing # {}
            /\ pc = "job_done" => h \in Exported

----------------------------------------------------------------------------
(* One call of Hexagon.export_mesh *)
MeshGeometries ==
    {Polygon, OtherGeometry("LineString"), OtherGeometry("GeometryCollection")}
    \cup {MultiPolygon(n) : n \in 2..MaxParts}
MeshElevations == {100, 105}
MeshOffsets == {95, 100}
MeshScales == {<<1, 50>>}        \* 0.1 / 5

InitMesh ==
    /\ pc = "export_mesh"
    /\ m_rows \in SeqsUpTo({Band(g, e) : g \in MeshGeometries, e \in MeshElevations},
                           MaxMeshBands)
    /\ m_offset \in {Num(o) : o \in MeshOffsets}
    /\ m_scale \in MeshScales
    /\ meshes = <<>>
    /\ IdleNeigh /\ IdleDist /\ IdlePoly /\ IdleJob /\ IdleStreets /\ IdleNorm

(* export_mesh lines 204-242 *)
ExportMesh ==
    /\ pc = "export_mesh"
    /\ meshes' = export_mesh(m_rows, BaseHeightMm, m_scale, m_offset)
    /\ pc' = "mesh_exported"
    /\ UNCHANGED <<m_rows, m_offset, m_scale, notMesh>>

NextMesh == ExportMesh

SpecMesh == InitMesh /\ [][NextMesh]_vars

BaseFirst ==
    /\ Len(meshes) >= 1
    /\ meshes[1].kind = "base"
    /\ \A v \in 2..Len(meshes) : meshes[v].kind = "band"

(* the bands whose elevation differs from elevation_offset_m *)
NonZeroBands == {k \in DOMAIN m_rows : Num(m_rows[k].elevation) # m_offset}

(* the <<band, part>> of the volumes after the base, in mesh order *)
VolumeKeys == [v \in 1..(Len(meshes) - 1) |-> <<meshes[v + 1].row, meshes[v + 1].part>>]

KeyBefore(a, b) == a[1] < b[1] \/ (a[1] = b[1] /\ a[2] < b[2])
InBandOrder(keys) == \A v, w \in DOMAIN keys : v < w => KeyBefore(keys[v], keys[w])

(* C8 as stated: the mesh is the base slab followed by exactly one volume  *)
(* per elevation band whose elevation differs from elevation_offset_m, in  *)
(* band order (bands at 100 and 105 with offset 100: 2 volumes).           *)
C8_OneVolumePerBand_Original ==
    pc = "mesh_exported" =>
        /\ BaseFirst
        /\ InBandOrder(VolumeKeys)
        /\ Range(VolumeKeys) = {<<k, 1>> : k \in NonZeroBands}

(* the polygons of a band's geometry: a Polygon itself, the members of a   *)
(* MultiPolygon, none of any other geometry                                *)
PolygonsOf(g) ==
    CASE g.type = "Polygon" -> 1
      [] g.type = "MultiPolygon" -> g.parts
      [] OTHER -> 0

(* C8 amended: the mesh is the base slab followed, in band order, by one   *)
(* volume per polygon of each elevation band whose elevation differs from  *)
(* elevation_offset_m: one for a Polygon band, one per member for a        *)
(* MultiPolygon band, none for a band of any other geometry type.          *)
C8_OneVolumePerPolygon ==
    pc = "mesh_exported" =>
        /\ BaseFirst
        /\ InBandOrder(VolumeKeys)
        /\ Range(VolumeKeys) =
              {<<k, q>> : k \in NonZeroBands, q \in 1..MaxParts} \cap
              {kq \in (DOMAIN m_rows) \X (1..MaxParts) :
                  kq[2] <= PolygonsOf(m_rows[kq[1]].geometry)}
        /\ (m_offset = Num(100) /\ m_rows = <<Band(Polygon, 100), Band(Polygon, 105)>>)
              => Len(meshes) = 2

C8_Witness ==
    /\ pc = "mesh_exported"
    /\ m_offset = Num(100)
    /\ m_rows = <<Band(Polygon, 100), Band(MultiPolygon(2), 105)>>
    /\ Len(meshes) = 3

----------------------------------------------------------------------------
(* One call of Hexagon.fetch_data: the street layer.  A geometry is the    *)
(* set of cells it passes through, so that an intersection is the set of   *)
(* common cells and is empty when there is none.                           *)
Cells == 1..MaxCells
Geometries == (SUBSET Cells) \ {{}}
LaneValues == {<<>>, <<2>>}          \* the lanes tag of a road: absent, or a number
StreetElevations == {100, 105}
Road(g, l) == [geometry |-> g, lanes |-> l]

(* the road collaborator: roads, a ValueError (no roads in the polygon),   *)
(* or any other exception                                                  *)
OsmAnswers ==
    {[raises |-> "", roads |-> rs] :
        rs \in SeqsUpTo({Road(g, l) : g \in Geometries, l \in LaneValues}, MaxRoads) \ {<<>>}}
    \cup {[raises |-> "ValueError", roads |-> <<>>], [raises |-> "Exception", roads |-> <<>>]}

(* _fetch_streets lines 166-174: the rows kept of the answer; a road       *)
(* without lanes gets 0; there is no elevation column yet                  *)
FetchedStreet(road) ==
    [geometry |-> road.geometry,
     lanes |-> IF road.lanes = <<>> THEN 0 ELSE road.lanes[1],
     type |-> "street",
     elevation |-> <<>>]

fetch_streets(answer) == [k \in DOMAIN answer.roads |-> FetchedStreet(answer.roads[k])]

(* fetch_data lines 109-113: the streets clipped to one band *)
ClipToBand(streets, band) ==
    LET clipped == [k \in DOMAIN streets |->
                       [streets[k] EXCEPT !.geometry = streets[k].geometry \cap band.geometry,
                                          !.elevation = <<band.elevation>>]]
    IN  SelectSeq(clipped, LAMBDA row : row.geometry # {})

RECURSIVE ConcatClips(_, _, _)
ConcatClips(streets, rows, k) ==
    IF k > Len(rows) THEN <<>>
    ELSE ClipToBand(streets, rows[k]) \o ConcatClips(streets, rows, k + 1)

(* fetch_data lines 104-119 *)
OverlayStreets(streets, rows) ==
    IF streets # <<>> /\ rows # <<>> THEN ConcatClips(streets, rows, 1) ELSE streets

InitStreets ==
    /\ pc = "fetch_data"
    /\ osm \in OsmAnswers
    /\ s_rows \in SeqsUpTo({Band(g, e) : g \in Geometries, e \in StreetElevations},
                           MaxStreetBands)
    /\ streets_gdf = <<>>
    /\ IdleNeigh /\ IdleDist /\ IdlePoly /\ IdleJob /\ IdleMesh /\ IdleNorm

(* fetch_data lines 98-121, the elevation bands being s_rows *)
FetchData ==
    /\ pc = "fetch_data"
    /\ osm.raises # "Exception"
    /\ streets_gdf' = OverlayStreets(fetch_streets(osm), s_rows)
    /\ pc' = "fetched"
    /\ UNCHANGED <<osm, s_rows, notStreets>>

(* _fetch_streets lines 178-180: exit(1) *)
FetchDataExits ==
    /\ pc = "fetch_data"
    /\ osm.raises = "Exception"
    /\ pc' = "exited"
    /\ UNCHANGED <<osm, s_rows, streets_gdf, notStreets>>

NextStreets == FetchData \/ FetchDataExits

SpecStreets == InitStreets /\ [][NextStreets]_vars

Count(s, v) == Cardinality({k \in DOMAIN s : s[k] = v})

(* the (band, road) pairs whose geometric intersection is not empty *)
CrossingPairs ==
    {kr \in (DOMAIN s_rows) \X (DOMAIN osm.roads) :
        s_rows[kr[1]].geometry \cap osm.roads[kr[2]].geometry # {}}

SegmentOf(kr) ==
    [geometry |-> s_rows[kr[1]].geometry \cap osm.roads[kr[2]].geometry,
     lanes |-> IF osm.roads[kr[2]].lanes = <<>> THEN 0 ELSE osm.roads[kr[2]].lanes[1],
     type |-> "street",
     elevation |-> <<s_rows[kr[1]].elevation>>]

(* C9: for every list of roads and every list of elevation bands, either   *)
(* possibly empty, after fetch_data the street layer holds exactly one     *)
(* segment for each (band, road) pair whose intersection is not empty,     *)
(* with the road's lanes and the band's elevation, and no other segment.   *)
C9_OneSegmentPerCrossing ==
    pc = "fetched" =>
        /\ Len(streets_gdf) = Cardinality(CrossingPairs)
        /\ \A kr \in CrossingPairs :
              Count(streets_gdf, SegmentOf(kr)) =
                  Cardinality({o \in CrossingPairs : SegmentOf(o) = SegmentOf(kr)})

----------------------------------------------------------------------------
(* export_mesh lines 204-233: compute_normalization_params and             *)
(* apply_normalization.  A geometry is the sequence of its points          *)
(* (doubled); a normalized coordinate is the fraction <<n, d>>, d > 0.     *)
GeomBounds(geom) ==
    <<SetMin({geom[k][1] : k \in DOMAIN geom}), SetMin({geom[k][2] : k \in DOMAIN geom}),
      SetMax({geom[k][1] : k \in DOMAIN geom}), SetMax({geom[k][2] : k \in DOMAIN geom})>>

(* lines 20-31; xoff and yoff doubled, scale the fraction <<n, d>>:        *)
(* target_size / max(width, height) = 2 target_size / max(width2, height2) *)
(* compute_normalization_paramsSign has xoff = minx, yoff = miny           *)
compute_normalization_paramsSign(geom, target_size) ==
    LET b == GeomBounds(geom)
    IN  [xoff |-> b[1], yoff |-> b[2],
         scale |-> <<2 * target_size, Max2(b[3] - b[1], b[4] - b[2])>>]
compute_normalization_params(geom, target_size) ==
    LET b == GeomBounds(geom)
        width == b[3] - b[1]
        height == b[4] - b[2]
    IN  [xoff |-> -b[1], yoff |-> -b[2],
         scale |-> <<2 * target_size, Max2(width, height)>>]

(* lines 33-35: translate by (xoff, yoff), then scale about (0, 0); the    *)
(* translated doubled coordinate c stands for c/2                          *)
apply_normalization(geom, params) ==
    [k \in DOMAIN geom |->
        << <<(geom[k][1] + params.xoff) * params.scale[1], 2 * params.scale[2]>>,
           <<(geom[k][2] + params.yoff) * params.scale[1], 2 * params.scale[2]>> >>]

NormCenters == {<<0, 0>>, <<6, -4>>, <<-3, 5>>}     \* (0,0), (3,-2), (-1.5,2.5)
TargetSizes == {1, 100}

(* the points a band polygon is given by: the hexagon's vertices, the      *)
(* centre, corners and side midpoints of its bbox, and the same eight      *)
(* directions one unit beyond the bbox                                     *)
BandPoints(h) ==
    Range(polygon(h))
    \cup {<<h.center[1] + 2 * h.size * a, h.center[2] + 2 * h.size * b>> :
             a \in {-1, 0, 1}, b \in {-1, 0, 1}}
    \cup {<<h.center[1] + (2 * h.size + 2) * a, h.center[2] + (2 * h.size + 2) * b>> :
             a \in {-1, 0, 1}, b \in {-1, 0, 1}}

InitNorm ==
    /\ pc = "norm_params"
    /\ nz_hex \in {Hexagon(c, s) : c \in NormCenters, s \in 1..MaxNormSize}
    /\ diameter_mm \in TargetSizes
    /\ normalization_params = <<>>
    /\ hexagon_poly = <<>>
    /\ nz_parts = 0
    /\ nz_poly = <<>>
    /\ normalized_poly = <<>>
    /\ IdleNeigh /\ IdleDist /\ IdlePoly /\ IdleJob /\ IdleMesh /\ IdleStreets

(* line 204 *)
ComputeParams ==
    /\ pc = "norm_params"
    /\ normalization_params' = compute_normalization_params(polygon(nz_hex), diameter_mm)
    /\ pc' = "norm_hexagon"
    /\ UNCHANGED <<nz_hex, diameter_mm, hexagon_poly, nz_parts, nz_poly, normalized_poly,
                   notNorm>>

(* line 209 *)
NormalizeHexagon ==
    /\ pc = "norm_hexagon"
    /\ hexagon_poly' = apply_normalization(polygon(nz_hex), normalization_params)
    /\ pc' = "norm_bands"
    /\ UNCHANGED <<nz_hex, diameter_mm, normalization_params, nz_parts, nz_poly,
                   normalized_poly, notNorm>>

(* line 233, for the next polygon of the next band *)
NormalizeBandPart ==
    /\ pc = "norm_bands"
    /\ nz_parts < MaxNormParts
    /\ \E m \in 1..MaxPartPoints : \E part \in [1..m -> BandPoints(nz_hex)] :
          /\ nz_poly' = part
          /\ normalized_poly' = apply_normalization(part, normalization_params)
    /\ nz_parts' = nz_parts + 1
    /\ UNCHANGED <<pc, nz_hex, diameter_mm, normalization_params, hexagon_poly, notNorm>>

NextNorm == ComputeParams \/ NormalizeHexagon \/ NormalizeBandPart

SpecNorm == InitNorm /\ [][NextNorm]_vars

(* the numerators of a normalized geometry's coordinates; its points share *)
(* one denominator                                                         *)
NormXs(g) == {g[k][1][1] : k \in DOMAIN g}
NormYs(g) == {g[k][2][1] : k \in DOMAIN g}
NormDen(g) == g[1][1][2]
SameDen(g) == \A k \in DOMAIN g : g[k][1][2] = NormDen(g) /\ g[k][2][2] = NormDen(g)

(* C11: compute_normalization_params followed by apply_normalization maps  *)
(* the hexagon polygon to a polygon whose bounding box has its minimum     *)
(* corner at (0,0) and max(width, height) = T; export_mesh computes the    *)
(* parameters once, from the hexagon polygon, and applies them to every    *)
(* band polygon, so that every band point inside the hexagon maps into     *)
(* [0,T] x [0,T].                                                          *)
C11_Normalization ==
    /\ normalization_params # <<>> =>
          /\ normalization_params.xoff = 2 * nz_hex.size - nz_hex.center[1]
          /\ normalization_params.yoff = 2 * nz_hex.size - nz_hex.center[2]
          /\ normalization_params.scale[1] * 2 * nz_hex.size
                = diameter_mm * normalization_params.scale[2]
    /\ hexagon_poly # <<>> =>
          /\ SameDen(hexagon_poly) /\ NormDen(hexagon_poly) > 0
          /\ SetMin(NormXs(hexagon_poly)) = 0
          /\ SetMin(NormYs(hexagon_poly)) = 0
          /\ Max2(SetMax(NormXs(hexagon_poly)) - SetMin(NormXs(hexagon_poly)),
                  SetMax(NormYs(hexagon_poly)) - SetMin(NormYs(hexagon_poly)))
                = diameter_mm * NormDen(hexagon_poly)
    /\ normalized_poly # <<>> =>
          \A k \in DOMAIN nz_poly :
              Covers(polygon(nz_hex), nz_poly[k]) =>
                  /\ normalized_poly[k][1][2] > 0 /\ normalized_poly[k][2][2] > 0
                  /\ 0 <= normalized_poly[k][1][1]
                  /\ normalized_poly[k][1][1] <= diameter_mm * normalized_poly[k][1][2]
                  /\ 0 <= normalized_poly[k][2][1]
                  /\ normalized_poly[k][2][1] <= diameter_mm * normalized_poly[k][2][2]

(* a second band polygon with a point on the hexagon's right vertex, which *)
(* maps to x = T, of a hexagon not at the origin                           *)
C11_Witness ==
    /\ nz_parts = 2 /\ diameter_mm = 100 /\ nz_hex.center = <<6, -4>>
    /\ \E k \in DOMAIN nz_poly :
          /\ nz_poly[k] = polygon(nz_hex)[5]
          /\ normalized_poly[k][1][1] = diameter_mm * normalized_poly[k][1][2]

----------------------------------------------------------------------------
(* distribute_hexagons lines 75-88 as a running loop: the interpreter      *)
(* keeps executing the while loop, so an enabled iteration is taken.       *)
SpecDistFair == InitDist /\ [][NextDist]_vars /\ WF_vars(DistributeIter)

(* what one iteration of the loop does to x, y, even and the list *)
IterationStep ==
    LET s == hexagon_size
        wrap == x + 2 * (3 * s) + 2 * s > bbox[3]
    IN  /\ Len(grid') = Len(grid) + 1
        /\ grid'[Len(grid')].center = <<x + 2 * s, y + 2 * s>>
        /\ ~wrap => /\ x' = x + 2 * (3 * s)
                    /\ y' = y /\ even' = even
                    /\ pc' = "distribute"
        /\ wrap => /\ y' = y + 2 * s
                   /\ even' = ~even
                   /\ x' = IF even THEN bbox[1] + 3 * s ELSE bbox[1]
                   /\ (pc' = "returned") <=> (y' + 2 * s > bbox[4])

(* C12: for every bbox, degenerate and inverted ones included, and every   *)
(* hexagon size s > 0 the while loop of distribute_hexagons terminates and *)
(* returns a non-empty list: each iteration appends one hexagon, x         *)
(* advances by 3s until a row wrap, and every row wrap advances y by s,    *)
(* until y + s > y_max.                                                    *)
C12_Terminates ==
    /\ <>(pc = "returned")
    /\ [](pc = "returned" => Len(grid) >= 1)
    /\ [][IterationStep]_vars

(* the loop has returned on an inverted bbox, with its one hexagon *)
C12_Witness ==
    /\ pc = "returned"
    /\ bbox[3] < bbox[1] /\ bbox[4] < bbox[2]
    /\ Len(grid) = 1

====
